---- MODULE Spec2Model ----
(***************************************************************************)
(* A state-machine model of cache_model.py, the init-container utility     *)
(* that makes a HuggingFace model present in an S3-compatible bucket:      *)
(* validate the environment, check the key prefix, and when it is empty    *)
(* download the snapshot, upload it with a thread pool and clean up.       *)
(*                                                                         *)
(* Text is modelled as a sequence of one-character strings, so that the    *)
(* regular expressions, startswith/endswith and the concatenations of the  *)
(* source are computed, not assumed.                                       *)
(***************************************************************************)
EXTENDS Integers, Sequences, FiniteSets, TLC

(***************************************************************************)
(* Bounds of the model.                                                    *)
(***************************************************************************)
\* Processes (runs of main) the model holds state for.
NumRuns == 2

Runs == 1..NumRuns

(***************************************************************************)
(* Characters and text.                                                    *)
(***************************************************************************)
Lower == {"a","b","c","d","e","f","g","h","i","j","k","l","m",
          "n","o","p","q","r","s","t","u","v","w","x","y","z"}
Upper == {"A","B","C","D","E","F","G","H","I","J","K","L","M",
          "N","O","P","Q","R","S","T","U","V","W","X","Y","Z"}
Digit == {"0","1","2","3","4","5","6","7","8","9"}

\* The line feed, the one character Python's $ treats specially.
NL == "\n"

\* str.startswith
StartsWith(s, p) ==
    /\ Len(p) <= Len(s)
    /\ SubSeq(s, 1, Len(p)) = p

\* str.endswith
EndsWith(s, p) ==
    /\ Len(p) <= Len(s)
    /\ SubSeq(s, Len(s) - Len(p) + 1, Len(s)) = p

\* The Python operator "sub in s" for a two-character sub.
Contains2(s, a, b) ==
    \E i \in 1..(Len(s) - 1) : s[i] = a /\ s[i + 1] = b

\* The texts at which a pattern's final $ may match: $ without re.MULTILINE
\* matches at the end of the string and just before a line feed that ends it.
DollarEnds(s) ==
    {s} \cup (IF Len(s) > 0 /\ s[Len(s)] = NL
              THEN {SubSeq(s, 1, Len(s) - 1)}
              ELSE {})

(***************************************************************************)
(* mask_credential.  A value that may be None is the set that holds it,    *)
(* empty for None.                                                         *)
(***************************************************************************)
Stars == <<"*","*","*">>

\* A variant of mask_credential that also masks a value of 8 characters whole.
mask_credential_over8(value) ==
    IF value = {} THEN Stars
    ELSE LET v == CHOOSE x \in value : TRUE
         IN  IF v = <<>> \/ Len(v) <= 8 THEN Stars
             ELSE SubSeq(v, 1, 4) \o Stars \o SubSeq(v, Len(v) - 3, Len(v))

\* mask_credential: "***" if not value or len(value) < 8, else
\* value[:4] + "***" + value[-4:].
mask_credential(value) ==
    IF value = {} THEN Stars
    ELSE LET v == CHOOSE x \in value : TRUE
         IN  IF v = <<>> \/ Len(v) < 8 THEN Stars
             ELSE SubSeq(v, 1, 4) \o Stars \o SubSeq(v, Len(v) - 3, Len(v))

(***************************************************************************)
(* validate_inputs                                                         *)
(***************************************************************************)
\* [a-zA-Z0-9][a-zA-Z0-9._-]*
ModelSegment(t) ==
    /\ Len(t) >= 1
    /\ t[1] \in Lower \cup Upper \cup Digit
    /\ \A i \in 2..Len(t) : t[i] \in Lower \cup Upper \cup Digit \cup {".", "_", "-"}

\* re.match(r'^[a-zA-Z0-9][a-zA-Z0-9._-]*(/[a-zA-Z0-9][a-zA-Z0-9._-]*)?$', s)
MatchModelPattern(s) ==
    \E t \in DollarEnds(s) :
        \/ ModelSegment(t)
        \/ \E i \in 1..Len(t) :
              /\ t[i] = "/"
              /\ ModelSegment(SubSeq(t, 1, i - 1))
              /\ ModelSegment(SubSeq(t, i + 1, Len(t)))

\* The repetition {1,61} of the bucket pattern.
BucketMidMin == 1
BucketMidMax == 61

\* re.match(r'^[a-z0-9][a-z0-9.-]{1,61}[a-z0-9]$', s)
MatchBucketPattern(s) ==
    \E t \in DollarEnds(s) :
        /\ Len(t) >= BucketMidMin + 2
        /\ Len(t) <= BucketMidMax + 2
        /\ t[1] \in Lower \cup Digit
        /\ t[Len(t)] \in Lower \cup Digit
        /\ \A i \in 2..(Len(t) - 1) : t[i] \in Lower \cup Digit \cup {".", "-"}

\* A variant of validate_inputs that forgets the absolute-path check.
validate_inputs_noabsolute(model_name, s3_bucket, s3_prefix) ==
    IF ~MatchModelPattern(model_name) THEN [raised |-> TRUE, field |-> "MODEL_NAME"]
    ELSE IF ~MatchBucketPattern(s3_bucket) THEN [raised |-> TRUE, field |-> "S3_BUCKET"]
    ELSE IF Contains2(s3_prefix, ".", ".") THEN [raised |-> TRUE, field |-> "S3_PREFIX"]
    ELSE [raised |-> FALSE, field |-> "none"]

\* A variant of validate_inputs that forgets the bucket check.
validate_inputs_nobucket(model_name, s3_bucket, s3_prefix) ==
    IF ~MatchModelPattern(model_name) THEN [raised |-> TRUE, field |-> "MODEL_NAME"]
    ELSE IF Contains2(s3_prefix, ".", ".") THEN [raised |-> TRUE, field |-> "S3_PREFIX"]
    ELSE IF StartsWith(s3_prefix, <<"/">>) THEN [raised |-> TRUE, field |-> "S3_PREFIX"]
    ELSE [raised |-> FALSE, field |-> "none"]

\* validate_inputs: the ValueError it raises, named by the field its message
\* names, or no error.
validate_inputs(model_name, s3_bucket, s3_prefix) ==
    IF ~MatchModelPattern(model_name) THEN [raised |-> TRUE, field |-> "MODEL_NAME"]
    ELSE IF ~MatchBucketPattern(s3_bucket) THEN [raised |-> TRUE, field |-> "S3_BUCKET"]
    ELSE IF Contains2(s3_prefix, ".", ".") THEN [raised |-> TRUE, field |-> "S3_PREFIX"]
    ELSE IF StartsWith(s3_prefix, <<"/">>) THEN [raised |-> TRUE, field |-> "S3_PREFIX"]
    ELSE [raised |-> FALSE, field |-> "none"]

(***************************************************************************)
(* validate_environment                                                    *)
(*                                                                         *)
(* The environment is a function from the names that are set to their      *)
(* text; a name outside its domain is unset.                               *)
(***************************************************************************)
\* "not os.environ.get(name)": unset, or set to the empty text.
EnvMissing(env, name) == name \notin DOMAIN env \/ env[name] = <<>>

\* os.environ.get(name, default)
EnvGet(env, name, default) == IF name \in DOMAIN env THEN env[name] ELSE default

\* The default of S3_PREFIX, "models/".
DefaultPrefix == <<"m","o","d","e","l","s","/">>
\* The default of DOWNLOAD_DIR, "/tmp".
DefaultDownloadDir == <<"/","t","m","p">>

\* The required names in the order validate_environment reads them.
RequiredEnv == <<"MODEL_NAME", "S3_BUCKET", "S3_ENDPOINT_URL",
                 "AWS_ACCESS_KEY_ID", "AWS_SECRET_ACCESS_KEY">>

\* The configuration dictionary; hf_token is the set holding the token, empty
\* for None.
ConfigOf(env) ==
    [model_name            |-> EnvGet(env, "MODEL_NAME", <<>>),
     s3_bucket             |-> EnvGet(env, "S3_BUCKET", <<>>),
     s3_endpoint_url       |-> EnvGet(env, "S3_ENDPOINT_URL", <<>>),
     aws_access_key_id     |-> EnvGet(env, "AWS_ACCESS_KEY_ID", <<>>),
     aws_secret_access_key |-> EnvGet(env, "AWS_SECRET_ACCESS_KEY", <<>>),
     s3_prefix             |-> EnvGet(env, "S3_PREFIX", DefaultPrefix),
     hf_token              |-> IF "HF_TOKEN" \in DOMAIN env THEN {env["HF_TOKEN"]} ELSE {},
     download_dir          |-> EnvGet(env, "DOWNLOAD_DIR", DefaultDownloadDir)]

\* validate_environment: either sys.exit(1) (exits, with the name of the
\* variable the logged error is about) or the configuration.
validate_environment(env) ==
    LET missing == {i \in 1..Len(RequiredEnv) : EnvMissing(env, RequiredEnv[i])}
        config  == ConfigOf(env)
        checked == validate_inputs(config.model_name, config.s3_bucket, config.s3_prefix)
    IN  IF missing # {}
        THEN [exits  |-> TRUE,
              about  |-> RequiredEnv[CHOOSE i \in missing : \A j \in missing : i <= j],
              config |-> config]
        ELSE IF checked.raised
        THEN [exits |-> TRUE, about |-> checked.field, config |-> config]
        ELSE [exits |-> FALSE, about |-> "none", config |-> config]

(***************************************************************************)
(* The object store, as boto3 shows it: a function from the buckets that   *)
(* exist to the objects each holds, and the objects of a bucket a function  *)
(* from their keys to their bytes.                                         *)
(***************************************************************************)
\* The bytes of a local file.  Every file of a repository has bytes of its
\* own, which are named here by the file.
FileBytes(local_file_path) == local_file_path

\* The bytes of an object that was stored before the run.
OldBytes == <<>>

\* MaxKeys of the existence check's listing request.
MaxKeys == 1

\* s3_client.list_objects_v2(Bucket, Prefix, MaxKeys): fault is the failure the
\* transport or the service answers with ("none" when it answers the request).
\* A missing bucket is a ClientError (NoSuchBucket).  The response has the key
\* Contents only when at least one key is listed.
list_objects_v2(st, bucket, prefix, max_keys, fault) ==
    IF fault # "none" THEN [raised |-> fault, response |-> [KeyCount |-> 0]]
    ELSE IF bucket \notin DOMAIN st
    THEN [raised |-> "ClientError", response |-> [KeyCount |-> 0]]
    ELSE LET matching == {k \in DOMAIN st[bucket] : StartsWith(k, prefix)}
             n == IF Cardinality(matching) < max_keys
                  THEN Cardinality(matching) ELSE max_keys
             listed == CHOOSE S \in SUBSET matching : Cardinality(S) = n
         IN  IF n = 0
             THEN [raised |-> "none", response |-> [KeyCount |-> 0]]
             ELSE [raised |-> "none",
                   response |-> [KeyCount |-> n, Contents |-> listed]]

\* A variant of model_exists_in_s3 whose except clause answers False.
model_exists_in_s3_swallow(listing) ==
    IF listing.raised # "none" THEN [raised |-> "none", value |-> FALSE]
    ELSE [raised |-> "none", value |-> "Contents" \in DOMAIN listing.response]

\* A variant of model_exists_in_s3 that reads a key every response has.
model_exists_in_s3_keycount(listing) ==
    IF listing.raised # "none" THEN [raised |-> listing.raised, value |-> FALSE]
    ELSE [raised |-> "none", value |-> "KeyCount" \in DOMAIN listing.response]

\* model_exists_in_s3, given the outcome of its listing request: a ClientError
\* is logged and raised again, any other exception passes through, and
\* otherwise the answer is 'Contents' in response.
model_exists_in_s3(listing) ==
    IF listing.raised = "ClientError" THEN [raised |-> "ClientError", value |-> FALSE]
    ELSE IF listing.raised # "none" THEN [raised |-> listing.raised, value |-> FALSE]
    ELSE [raised |-> "none", value |-> "Contents" \in DOMAIN listing.response]

\* s3_client.upload_file(local_file_path, bucket, s3_key) when it succeeds:
\* the object at the key now holds the bytes, whatever it held before.
PutObject(st, bucket, key, bytes) ==
    [b \in DOMAIN st |->
        IF b = bucket
        THEN [k \in DOMAIN st[b] \cup {key} |-> IF k = key THEN bytes ELSE st[b][k]]
        ELSE st[b]]

(***************************************************************************)
(* main, steps 3 and 4.                                                    *)
(***************************************************************************)
\* A variant of step 3 that joins the prefix and the model name as they are.
FullS3Prefix_plain(config) == config.s3_prefix \o config.model_name \o <<"/">>

\* Step 3: the full S3 prefix.
FullS3Prefix(config) ==
    LET p == config.s3_prefix
        q == IF p # <<>> /\ ~EndsWith(p, <<"/">>) THEN p \o <<"/">> ELSE p
    IN  q \o config.model_name \o <<"/">>

\* A variant of step 4 that goes on to the download whatever the check says.
ExistsBranch_always_download(found) == "mkdtemp"

\* Step 4: where main goes after the existence check.
ExistsBranch(found) == IF found THEN "exit0" ELSE "mkdtemp"

(***************************************************************************)
(* upload_directory_to_s3: the pure part.                                  *)
(*                                                                         *)
(* A local file is the sequence of its path components below the directory *)
(* that holds it; the file system is a function from the directories that  *)
(* exist to the set of files below each.                                   *)
(***************************************************************************)
\* os.sep of the platform the program runs on (POSIX).
Sep == <<"/">>

RECURSIVE JoinPath(_)
\* os.path.relpath(os.path.join(root, file), local_dir): the components joined
\* by os.sep.
JoinPath(components) ==
    IF Len(components) = 0 THEN <<>>
    ELSE IF Len(components) = 1 THEN components[1]
    ELSE components[1] \o Sep \o JoinPath(Tail(components))

\* A variant of the normalisation that leaves the prefix as it was given.
NormalizePrefix_asgiven(s3_prefix) == s3_prefix

\* "if not s3_prefix.endswith('/'): s3_prefix += '/'"
NormalizePrefix(s3_prefix) ==
    IF ~EndsWith(s3_prefix, <<"/">>) THEN s3_prefix \o <<"/">> ELSE s3_prefix

\* A variant of the key computation that keeps only the file's name.
S3Key_basename(s3_prefix, relative_path) ==
    LET slashes == {i \in 1..Len(relative_path) : relative_path[i] = "/"}
        last == IF slashes = {} THEN 0
                ELSE CHOOSE i \in slashes : \A j \in slashes : j <= i
    IN  s3_prefix \o SubSeq(relative_path, last + 1, Len(relative_path))

\* A variant of the key computation that drops the prefix.
S3Key_noprefix(s3_prefix, relative_path) == relative_path

\* s3_key = s3_prefix + relative_path
S3Key(s3_prefix, relative_path) == s3_prefix \o relative_path

\* The files os.walk(local_dir) yields; a directory that does not exist yields
\* none (os.walk ignores the error).
Walk(fsys, local_dir) == IF local_dir \in DOMAIN fsys THEN fsys[local_dir] ELSE {}

\* files_to_upload, as a function from relative_path to the future submitted
\* for it: the (local_file_path, s3_key) it uploads and its state.
FilesToUpload(fsys, local_dir, s3_prefix) ==
    LET files == Walk(fsys, local_dir)
        rels == {JoinPath(f) : f \in files}
    IN  [rel \in rels |->
            [local_file_path |-> CHOOSE f \in files : JoinPath(f) = rel,
             s3_key |-> S3Key(NormalizePrefix(s3_prefix), rel),
             state |-> "PENDING"]]

\* A variant of the empty case that raises.
NoFilesOutcome_raise == "raise"

\* "if not files_to_upload: logger.warning('No files to upload'); return"
NoFilesOutcome == "return"

\* max_workers of upload_directory_to_s3, which main leaves at its default.
DefaultMaxWorkers == 10

\* A variant of the executor that starts a thread for every task.
WorkerAvailable_unbounded(running, workers) == TRUE

\* ThreadPoolExecutor(max_workers): a pending task starts only while fewer
\* than max_workers threads are busy.
WorkerAvailable(running, workers) == running < workers

\* A variant of the task that puts a failed upload back in the queue.
TaskOutcome_retry(raised) == IF raised = "none" THEN "FINISHED" ELSE "PENDING"

\* The state of a future when upload_file_to_s3 ends: finished with a result,
\* or finished with the exception upload_file raised (logged and raised again).
TaskOutcome(raised) == IF raised = "none" THEN "FINISHED" ELSE raised

\* A variant of the executor's exit that does not wait: shutdown(wait=False).
ShutdownReturns_nowait(states) == TRUE

\* The exit of "with ThreadPoolExecutor(...)" is shutdown(wait=True): it
\* returns once no future is pending or running.
ShutdownReturns(states) == states \cap {"PENDING", "RUNNING"} = {}

\* A variant of the executor's exit that cancels the futures no worker has
\* taken yet: shutdown(wait=True, cancel_futures=True).
ShutdownQueue_cancel(fut) ==
    [rel \in DOMAIN fut |->
        IF fut[rel].state = "PENDING"
        THEN [fut[rel] EXCEPT !.state = "CANCELLED"]
        ELSE fut[rel]]

\* What leaving "with ThreadPoolExecutor(...)" does to the submitted futures:
\* its exit is shutdown(wait=True) with cancel_futures left False, and the
\* loop's "raise" cancels nothing, so the futures no worker has taken yet
\* stay in the queue and are still run.
ShutdownQueue(fut) == fut

(***************************************************************************)
(* main: the pure parts of its exception handling.                         *)
(***************************************************************************)
\* download_dir = None
NoDir == 0

\* config["download_dir"], the directory the runs' directories are made in.
WorkDir == -1

\* os.path.exists(path)
PathExists(fsys, path) == path = WorkDir \/ path \in DOMAIN fsys

\* shutil.rmtree(path): the directory and all below it are gone.
Rmtree(fsys, path) ==
    IF path = WorkDir THEN <<>>
    ELSE [d \in DOMAIN fsys \ {path} |-> fsys[d]]

\* A variant of the finally clause that cleans up the configured directory.
CleanupArgument_workdir(dir, work_dir) == work_dir

\* The finally clause: cleanup_local_files(download_dir)
CleanupArgument(dir, work_dir) == dir

\* shutil.rmtree(path) raises OSError: the directory is still there, with the
\* files rmtree had not removed when it failed (all, some or none of them).
RmtreeFails(fsys, path) ==
    IF path \in DOMAIN fsys
    THEN {[fsys EXCEPT ![path] = left] : left \in SUBSET fsys[path]}
    ELSE {fsys}

\* tempfile.mkdtemp: a directory name that no existing directory has and that
\* mkdtemp has not given before.
FreshDir(fsys, used) ==
    LET taken == DOMAIN fsys \cup used
    IN  CHOOSE d \in 1..(Cardinality(taken) + 1) : d \notin taken

\* os.path.exists(download_path) for the path snapshot_download returned: the
\* requested directory, another existing path, or a path that does not exist.
DownloadPathExists(returned, fsys, dir) ==
    CASE returned = "same"    -> dir \in DOMAIN fsys
      [] returned = "other"   -> TRUE
      [] returned = "missing" -> FALSE

\* A variant of the download validation that accepts any returned path.
DownloadValidationRaises_never(returned, fsys, dir) == FALSE

\* "if not os.path.exists(download_path): raise RuntimeError"
DownloadValidationRaises(returned, fsys, dir) == ~DownloadPathExists(returned, fsys, dir)

\* The except clause of main that handles an exception of the given type, in
\* the order the clauses are written.
HandlerOf(type) ==
    CASE type = "ClientError"    -> "S3 operation error"
      [] type = "HfHubHTTPError" -> "HuggingFace Hub error"
      [] type = "OSError"        -> "Filesystem error"
      [] OTHER                   -> "An unexpected error occurred"

\* A variant in which the catch-all clause exits with status 0.
HandlerExitCode_catchall_zero(type) ==
    IF HandlerOf(type) = "An unexpected error occurred" THEN 0 ELSE 1

\* The argument of the sys.exit that ends each except clause.
HandlerExitCode(type) == 1

\* A variant of the upload loop that raises again only a ClientError.
FutureResultRaises_only_client(state) == state = "ClientError"

\* A variant of the upload loop whose except clause does not raise again.
FutureResultRaises_swallowed(state) == FALSE

\* future.result() in the upload loop raises what the task raised, and the
\* loop's except clause raises it again.
FutureResultRaises(state) == state # "FINISHED"

\* A variant of the finally clause that never cleans up.
ShouldCleanup_never(dir, fsys) == FALSE

\* The finally clause: "if download_dir and os.path.exists(download_dir)"
ShouldCleanup(dir, fsys) == dir # NoDir /\ PathExists(fsys, dir)

\* A variant of cleanup_local_files without its except clause.
CleanupCatches_nothing(type) == FALSE

\* cleanup_local_files: "except OSError"
CleanupCatches(type) == type = "OSError"

\* The exit status of the process, from the exception that leaves main: the
\* code of a SystemExit, 1 for any other exception, 0 when main returns.
ProcessExitStatus(type, code) ==
    IF type = "SystemExit" THEN code
    ELSE IF type = "none" THEN 0
    ELSE 1

(***************************************************************************)
(* The state.                                                              *)
(***************************************************************************)
VARIABLES
    env,            \* per run: the environment the process starts with
    hub,            \* the files of the model repository on the hub
    store,          \* the object store: bucket -> (key -> bytes)
    fs,             \* the local file system: directory -> set of files
    tmp_names,      \* the directory names tempfile.mkdtemp has given so far
    pc,             \* per run: where main is
    config,         \* per run: the dictionary validate_environment returned
    full_s3_prefix, \* per run: main's full_s3_prefix
    download_dir,   \* per run: main's download_dir (NoDir for None)
    max_workers,    \* per run: the size of the upload's thread pool
    futures,        \* per run: relative_path -> [s3_key, state] of its future
    yielded,        \* per run: the futures as_completed has handed to the loop
    exc,            \* per run: the type of the exception in flight, or "none"
    exit_arg,       \* per run: the code of the SystemExit in flight
    exit_status,    \* per run: the exit status of the process, -1 while it runs
    log,            \* per run: the last SUCCESS or FAILED banner logged
    hist,           \* per run: what the run has called and seen so far
    probe           \* a direct call of one function: its arguments and result

vars == <<env, hub, store, fs, tmp_names, pc, config, full_s3_prefix, download_dir,
          max_workers, futures, yielded, exc, exit_arg, exit_status, log,
          hist, probe>>

\* The state of a future that has finished.
Done(state) == state \notin {"PENDING", "RUNNING"}

\* What a run has called and seen: nothing yet.
NoHist ==
    [client_created |-> 0,      \* calls of boto3.client that returned
     list_calls     |-> 0,      \* list_objects_v2 requests
     list_raised    |-> "none", \* the exception the listing request raised
     list_prefix    |-> <<>>,   \* the Prefix of the listing request
     upload_prefix  |-> <<>>,   \* the s3_prefix upload_directory_to_s3 was given
     exists         |-> "none", \* model_exists_in_s3: "true", "false", "raised"
     dirs_created   |-> {},     \* the directories mkdtemp returned
     fetch_calls    |-> 0,      \* calls of snapshot_download
     fetch          |-> "none", \* snapshot_download: "returned", "raised"
     fetched        |-> {},     \* the files in download_dir when the download returned
     returned       |-> "none", \* the path snapshot_download returned
     handler        |-> "none", \* the except clause of main that ran
     uploads        |-> 0,      \* calls of upload_directory_to_s3
     put_calls      |-> <<>>,   \* relative_path -> calls of upload_file for it
     store_before   |-> <<>>,   \* the object store when main started
     cleanup_calls  |-> 0,      \* calls of cleanup_local_files
     cleanup_args   |-> {},     \* the directories cleanup_local_files was given
     rmtree_failed  |-> FALSE,  \* shutil.rmtree raised in cleanup_local_files
     started_after_raise |-> FALSE] \* a task started after the loop saw a failure

NoProbe == [fn |-> "none"]

(***************************************************************************)
(* The inputs the model draws from.                                        *)
(***************************************************************************)
T_gpt2   == <<"g","p","t","2">>
T_bucket == <<"t","e","s","t","-","b","u","c","k","e","t">>
T_url    == <<"h","t","t","p","s",":","/","/","s","3">>
T_akid   == <<"A","K","I","A","T","E","S","T","1","2","3">>
T_secret == <<"s","e","c","r","e","t","k","e","y","1","2","3">>
T_cache  == <<"c","a","c","h","e">>
T_c_txt  == <<"c",".","t","x","t">>
T_b_txt  == <<"b",".","t","x","t">>
T_d_bin  == <<"d",".","b","i","n">>
T_a      == <<"a">>

\* The environment of the tests' mock_env_vars, with S3_PREFIX left unset.
BaseEnv ==
    [n \in {"MODEL_NAME", "S3_BUCKET", "S3_ENDPOINT_URL",
            "AWS_ACCESS_KEY_ID", "AWS_SECRET_ACCESS_KEY"} |->
        CASE n = "MODEL_NAME"            -> T_gpt2
          [] n = "S3_BUCKET"             -> T_bucket
          [] n = "S3_ENDPOINT_URL"       -> T_url
          [] n = "AWS_ACCESS_KEY_ID"     -> T_akid
          [] n = "AWS_SECRET_ACCESS_KEY" -> T_secret]

EnvWith(e, name, text) ==
    [n \in DOMAIN e \cup {name} |-> IF n = name THEN text ELSE e[n]]

EnvWithout(e, name) == [n \in DOMAIN e \ {name} |-> e[n]]

\* Environments that pass validation: the default prefix, a prefix without its
\* final '/', and the empty prefix.
ValidEnvs ==
    {BaseEnv,
     EnvWith(BaseEnv, "S3_PREFIX", T_cache),
     EnvWith(BaseEnv, "S3_PREFIX", <<>>)}

\* Environments validate_environment exits on: each required name unset, one
\* set to the empty text, and a rejected model name, bucket and prefix.
InvalidEnvs ==
    {EnvWithout(BaseEnv, RequiredEnv[i]) : i \in 1..Len(RequiredEnv)}
    \cup {EnvWith(BaseEnv, "S3_BUCKET", <<>>),
          EnvWith(BaseEnv, "MODEL_NAME", <<".",".","/","x">>),
          EnvWith(BaseEnv, "S3_BUCKET", <<"A","B","C">>),
          EnvWith(BaseEnv, "S3_PREFIX", <<"/","a">>),
          EnvWith(BaseEnv, "S3_PREFIX", <<"a","/",".",".","/">>)}

Envs == ValidEnvs \cup InvalidEnvs

\* The files a repository may hold: c.txt, a/b.txt and d.bin.
HubFiles == {<<T_c_txt>>, <<T_a, T_b_txt>>, <<T_d_bin>>}

\* The most files a repository holds.
MaxFiles == 2

Snapshots == {S \in SUBSET HubFiles : Cardinality(S) <= MaxFiles}

\* Keys a bucket may hold before the run: one under each valid environment's
\* prefix, and one of a model whose name only starts like this one's.
StoreKeys ==
    {DefaultPrefix \o T_gpt2 \o <<"/">> \o T_c_txt,
     T_cache \o <<"/">> \o T_gpt2 \o <<"/">> \o T_c_txt,
     T_gpt2 \o <<"/">> \o T_c_txt,
     DefaultPrefix \o T_gpt2 \o <<"-","l","/">> \o T_c_txt}

\* The most keys the bucket holds before the run.
MaxStoreKeys == 2

\* The object store before the run: no bucket, or the bucket with some keys.
InitialStores ==
    {<<>>} \cup
    {[b \in {T_bucket} |-> [k \in K |-> OldBytes]] :
        K \in {S \in SUBSET StoreKeys : Cardinality(S) <= MaxStoreKeys}}

\* The failures a request to the object store may end in: a ClientError (the
\* service refuses) or another exception (the endpoint is not reached).
StoreFaults == {"ClientError", "Exception"}

\* The exceptions snapshot_download may raise.
FetchFaults == {"HfHubHTTPError", "OSError", "Exception"}

\* The exceptions upload_file may raise.
UploadFaults == {"ClientError", "OSError", "Exception"}

(***************************************************************************)
(* Init: run 1 is about to call main; the other runs are not started.      *)
(***************************************************************************)
InitRuns(starting, workers) ==
    /\ fs = <<>>
    /\ tmp_names = {}
    /\ pc = [r \in Runs |-> IF r \in starting THEN "main" ELSE "idle"]
    /\ config = [r \in Runs |-> ConfigOf(<<>>)]
    /\ full_s3_prefix = [r \in Runs |-> <<>>]
    /\ download_dir = [r \in Runs |-> NoDir]
    /\ max_workers = [r \in Runs |-> workers]
    /\ futures = [r \in Runs |-> <<>>]
    /\ yielded = [r \in Runs |-> {}]
    /\ exc = [r \in Runs |-> "none"]
    /\ exit_arg = [r \in Runs |-> 0]
    /\ exit_status = [r \in Runs |-> -1]
    /\ log = [r \in Runs |-> "none"]
    /\ hist = [r \in Runs |-> NoHist]

Init ==
    /\ \E e \in Envs : env = [r \in Runs |-> e]
    /\ hub \in Snapshots
    /\ store \in InitialStores
    /\ InitRuns({1}, DefaultMaxWorkers)
    /\ probe = NoProbe

(***************************************************************************)
(* main, step by step.  r is the run.                                      *)
(***************************************************************************)
\* sys.exit(code) inside main's try: a SystemExit, which no except clause of
\* main catches, so the finally clause is next.
SysExit(r, code) ==
    /\ exc' = [exc EXCEPT ![r] = "SystemExit"]
    /\ exit_arg' = [exit_arg EXCEPT ![r] = code]
    /\ pc' = [pc EXCEPT ![r] = "finally"]

\* An exception of the given type raised inside main's try.
Raise(r, type) ==
    /\ exc' = [exc EXCEPT ![r] = type]
    /\ pc' = [pc EXCEPT ![r] = "except"]
    /\ UNCHANGED exit_arg

\* The next step of main, with no exception.
Goto(r, label) ==
    /\ pc' = [pc EXCEPT ![r] = label]
    /\ UNCHANGED <<exc, exit_arg>>

\* Step 1: config = validate_environment()
ValidateEnvironment(r) ==
    /\ pc[r] = "main"
    /\ LET res == validate_environment(env[r])
       IN  IF res.exits
           THEN SysExit(r, 1) /\ UNCHANGED config
           ELSE /\ config' = [config EXCEPT ![r] = res.config]
                /\ Goto(r, "create_s3_client")
    /\ hist' = [hist EXCEPT ![r].store_before = store]
    /\ UNCHANGED <<env, tmp_names, hub, store, fs, full_s3_prefix, download_dir, max_workers,
                   futures, yielded, exit_status, log, probe>>

\* Steps 2 and 3: s3_client = create_s3_client(...), which returns the client
\* or lets the exception of boto3.client through, and full_s3_prefix.
CreateS3Client(r) ==
    /\ pc[r] = "create_s3_client"
    /\ \/ /\ hist' = [hist EXCEPT ![r].client_created = @ + 1]
          /\ full_s3_prefix' = [full_s3_prefix EXCEPT ![r] = FullS3Prefix(config[r])]
          /\ Goto(r, "model_exists_in_s3")
       \/ /\ Raise(r, "Exception")
          /\ UNCHANGED <<hist, full_s3_prefix>>
    /\ UNCHANGED <<env, tmp_names, hub, store, fs, config, download_dir, max_workers,
                   futures, yielded, exit_status, log, probe>>

\* Step 4: if model_exists_in_s3(...): log SUCCESS and sys.exit(0)
CheckExists(r) ==
    /\ pc[r] = "model_exists_in_s3"
    /\ \E fault \in {"none"} \cup StoreFaults :
         LET listing == list_objects_v2(store, config[r].s3_bucket,
                                        full_s3_prefix[r], MaxKeys, fault)
             res == model_exists_in_s3(listing)
         IN  /\ hist' = [hist EXCEPT
                    ![r].list_calls = @ + 1,
                    ![r].list_prefix = full_s3_prefix[r],
                    ![r].list_raised = listing.raised,
                    ![r].exists = IF res.raised # "none" THEN "raised"
                                  ELSE IF res.value THEN "true" ELSE "false"]
             /\ IF res.raised # "none"
                THEN Raise(r, res.raised) /\ UNCHANGED log
                ELSE IF ExistsBranch(res.value) = "exit0"
                THEN /\ log' = [log EXCEPT ![r] = "SUCCESS"]
                     /\ SysExit(r, 0)
                ELSE Goto(r, "mkdtemp") /\ UNCHANGED log
    /\ UNCHANGED <<env, tmp_names, hub, store, fs, config, full_s3_prefix, download_dir,
                   max_workers, futures, yielded, exit_status, probe>>

\* Step 6: download_dir = tempfile.mkdtemp(prefix="hf_model_", dir=...), which
\* makes a new directory or raises OSError.
Mkdtemp(r) ==
    /\ pc[r] = "mkdtemp"
    /\ \/ LET d == FreshDir(fs, tmp_names)
          IN  /\ fs' = [x \in DOMAIN fs \cup {d} |-> IF x = d THEN {} ELSE fs[x]]
              /\ tmp_names' = tmp_names \cup {d}
              /\ download_dir' = [download_dir EXCEPT ![r] = d]
              /\ hist' = [hist EXCEPT ![r].dirs_created = @ \cup {d}]
              /\ Goto(r, "download_model_from_hf")
       \/ /\ Raise(r, "OSError")
          /\ UNCHANGED <<fs, tmp_names, download_dir, hist>>
    /\ UNCHANGED <<env, hub, store, config, full_s3_prefix, max_workers,
                   futures, yielded, exit_status, log, probe>>

\* Step 7: download_model_from_hf(...).  snapshot_download either raises,
\* leaving any part of the repository in the directory, or writes the whole
\* repository there and returns a path, which the function checks to exist.
\* main drops the returned path.
Download(r) ==
    /\ pc[r] = "download_model_from_hf"
    /\ \/ \E fault \in FetchFaults, partial \in SUBSET hub :
            /\ fs' = [fs EXCEPT ![download_dir[r]] = partial]
            /\ hist' = [hist EXCEPT ![r].fetch_calls = @ + 1,
                                    ![r].fetch = "raised",
                                    ![r].fetched = partial]
            /\ Raise(r, fault)
       \/ \E returned \in {"same", "other", "missing"} :
            LET written == [fs EXCEPT ![download_dir[r]] = hub]
                raises == DownloadValidationRaises(returned, written, download_dir[r])
            IN  /\ fs' = written
                /\ hist' = [hist EXCEPT ![r].fetch_calls = @ + 1,
                                        ![r].fetch = "returned",
                                        ![r].fetched = hub,
                                        ![r].returned = returned]
                /\ IF raises
                   THEN Raise(r, "Exception")
                   ELSE Goto(r, "upload_directory_to_s3")
    /\ UNCHANGED <<env, tmp_names, hub, store, config, full_s3_prefix, download_dir,
                   max_workers, futures, yielded, exit_status, log, probe>>

\* upload_directory_to_s3 was called on its own, not by main.
DirectCall == probe.fn = "upload_directory_to_s3"

\* upload_directory_to_s3 returns: to the caller of a direct call; in main,
\* to step 9, which logs SUCCESS and calls sys.exit(0).
UploadReturns(r) ==
    IF DirectCall
    THEN /\ pc' = [pc EXCEPT ![r] = "returned"]
         /\ UNCHANGED <<exc, exit_arg, log>>
    ELSE /\ log' = [log EXCEPT ![r] = "SUCCESS"]
         /\ SysExit(r, 0)

\* upload_directory_to_s3 raises: to the caller of a direct call; in main, to
\* the except clauses.
UploadRaises(r, type) ==
    /\ exc' = [exc EXCEPT ![r] = type]
    /\ pc' = [pc EXCEPT ![r] = IF DirectCall THEN "raised" ELSE "except"]
    /\ UNCHANGED <<exit_arg, log>>

\* Step 8, first part: upload_directory_to_s3 collects files_to_upload and
\* either returns (no files; main then logs SUCCESS and calls sys.exit(0)) or
\* submits one future per file to the executor.
UploadStart(r) ==
    /\ pc[r] = "upload_directory_to_s3"
    /\ LET files == FilesToUpload(fs, download_dir[r], full_s3_prefix[r])
       IN  IF DOMAIN files = {}
           THEN /\ hist' = [hist EXCEPT ![r].uploads = @ + 1,
                                        ![r].upload_prefix = full_s3_prefix[r]]
                /\ IF NoFilesOutcome = "return"
                   THEN UploadReturns(r)
                   ELSE UploadRaises(r, "Exception")
                /\ UNCHANGED futures
           ELSE /\ hist' = [hist EXCEPT ![r].uploads = @ + 1,
                                        ![r].upload_prefix = full_s3_prefix[r],
                                        ![r].put_calls = [rel \in DOMAIN files |-> 0]]
                /\ futures' = [futures EXCEPT ![r] = files]
                /\ Goto(r, "as_completed")
                /\ UNCHANGED log
    /\ UNCHANGED <<env, tmp_names, hub, store, fs, config, full_s3_prefix, download_dir,
                   max_workers, yielded, exit_status, probe>>

\* The futures of run r that a worker thread is executing.
Running(r) == {rel \in DOMAIN futures[r] : futures[r][rel].state = "RUNNING"}

\* A worker thread of the executor takes a pending future and calls
\* upload_file_to_s3, which calls upload_file; there are at most max_workers
\* threads.
WorkerStart(r, rel) ==
    /\ pc[r] \in {"as_completed", "shutdown"}
    /\ rel \in DOMAIN futures[r]
    /\ futures[r][rel].state = "PENDING"
    /\ WorkerAvailable(Cardinality(Running(r)), max_workers[r])
    /\ futures' = [futures EXCEPT ![r][rel].state = "RUNNING"]
    /\ hist' = [hist EXCEPT ![r].put_calls[rel] = @ + 1,
                            ![r].started_after_raise = @ \/ exc[r] # "none"]
    /\ UNCHANGED <<env, tmp_names, hub, store, fs, pc, config, full_s3_prefix, download_dir,
                   max_workers, yielded, exc, exit_arg, exit_status, log, probe>>

\* The worker's upload_file_to_s3 ends: upload_file stored the object, or
\* raised and stored nothing.
WorkerFinish(r, rel) ==
    /\ rel \in DOMAIN futures[r]
    /\ futures[r][rel].state = "RUNNING"
    /\ \/ /\ config[r].s3_bucket \in DOMAIN store
          /\ futures[r][rel].local_file_path \in Walk(fs, download_dir[r])
          /\ store' = PutObject(store, config[r].s3_bucket, futures[r][rel].s3_key,
                                FileBytes(futures[r][rel].local_file_path))
          /\ futures' = [futures EXCEPT ![r][rel].state = TaskOutcome("none")]
       \/ \E fault \in UploadFaults :
            /\ futures' = [futures EXCEPT ![r][rel].state = TaskOutcome(fault)]
            /\ UNCHANGED store
    /\ UNCHANGED <<env, tmp_names, hub, fs, pc, config, full_s3_prefix, download_dir,
                   max_workers, yielded, exc, exit_arg, exit_status, log, hist,
                   probe>>

\* One turn of "for future in as_completed(future_to_file)": a finished future
\* is handed to the loop, whose future.result() returns or raises what the
\* task raised; the loop logs and raises it again, which leaves the loop.
\* After the last future the loop ends.  Either way the "with" block of the
\* executor is left, and its exit begins.
AsCompleted(r) ==
    /\ pc[r] = "as_completed"
    /\ \E rel \in DOMAIN futures[r] \ yielded[r] :
         /\ Done(futures[r][rel].state)
         /\ yielded' = [yielded EXCEPT ![r] = @ \cup {rel}]
         /\ IF ~FutureResultRaises(futures[r][rel].state)
            THEN /\ pc' = [pc EXCEPT ![r] =
                        IF yielded[r] \cup {rel} = DOMAIN futures[r]
                        THEN "shutdown" ELSE "as_completed"]
                 /\ futures' = [futures EXCEPT ![r] =
                        IF yielded[r] \cup {rel} = DOMAIN futures[r]
                        THEN ShutdownQueue(@) ELSE @]
                 /\ UNCHANGED exc
            ELSE /\ exc' = [exc EXCEPT ![r] = futures[r][rel].state]
                 /\ pc' = [pc EXCEPT ![r] = "shutdown"]
                 /\ futures' = [futures EXCEPT ![r] = ShutdownQueue(@)]
    /\ UNCHANGED <<env, tmp_names, hub, store, fs, config, full_s3_prefix, download_dir,
                   max_workers, exit_arg, exit_status, log, hist, probe>>

\* The end of "with ThreadPoolExecutor(...)": shutdown(wait=True) returns once
\* every submitted future has finished.  Then upload_directory_to_s3 raises
\* the exception the loop left with, or returns.
ExecutorShutdown(r) ==
    /\ pc[r] = "shutdown"
    /\ ShutdownReturns({futures[r][rel].state : rel \in DOMAIN futures[r]})
    /\ IF exc[r] = "none"
       THEN UploadReturns(r)
       ELSE UploadRaises(r, exc[r])
    /\ UNCHANGED <<env, tmp_names, hub, store, fs, config, full_s3_prefix, download_dir,
                   max_workers, futures, yielded, exit_status, hist, probe>>

\* The except clause for the exception in flight: log FAILED, sys.exit(1).
Except(r) ==
    /\ pc[r] = "except"
    /\ log' = [log EXCEPT ![r] = "FAILED"]
    /\ hist' = [hist EXCEPT ![r].handler = HandlerOf(exc[r])]
    /\ SysExit(r, HandlerExitCode(exc[r]))
    /\ UNCHANGED <<env, tmp_names, hub, store, fs, config, full_s3_prefix, download_dir,
                   max_workers, futures, yielded, exit_status, probe>>

\* The finally clause (step 10): cleanup_local_files(download_dir) when the
\* directory was made and exists.  shutil.rmtree removes it, or raises OSError
\* after it has removed some of what is in it; cleanup_local_files catches
\* and logs the OSError.
Finally(r) ==
    /\ pc[r] = "finally"
    /\ \/ /\ ~ShouldCleanup(download_dir[r], fs)
          /\ UNCHANGED <<fs, hist, exc>>
       \/ /\ ShouldCleanup(download_dir[r], fs)
          /\ fs' = Rmtree(fs, CleanupArgument(download_dir[r], WorkDir))
          /\ hist' = [hist EXCEPT
                 ![r].cleanup_calls = @ + 1,
                 ![r].cleanup_args = @ \cup {CleanupArgument(download_dir[r], WorkDir)}]
          /\ UNCHANGED exc
       \/ /\ ShouldCleanup(download_dir[r], fs)
          /\ hist' = [hist EXCEPT
                 ![r].cleanup_calls = @ + 1,
                 ![r].cleanup_args = @ \cup {CleanupArgument(download_dir[r], WorkDir)},
                 ![r].rmtree_failed = TRUE]
          /\ exc' = [exc EXCEPT ![r] = IF CleanupCatches("OSError") THEN @ ELSE "OSError"]
          /\ fs' \in RmtreeFails(fs, CleanupArgument(download_dir[r], WorkDir))
    /\ pc' = [pc EXCEPT ![r] = "exit"]
    /\ UNCHANGED <<env, tmp_names, hub, store, config, full_s3_prefix, download_dir,
                   max_workers, futures, yielded, exit_arg, exit_status, log, probe>>

\* The exception that left main ends the process.
ProcessExit(r) ==
    /\ pc[r] = "exit"
    /\ exit_status' = [exit_status EXCEPT ![r] = ProcessExitStatus(exc[r], exit_arg[r])]
    /\ pc' = [pc EXCEPT ![r] = "exited"]
    /\ UNCHANGED <<env, tmp_names, hub, store, fs, config, full_s3_prefix, download_dir,
                   max_workers, futures, yielded, exc, exit_arg, log, hist, probe>>

\* The relative paths a run may upload.
Rels == {JoinPath(f) : f \in HubFiles}

Step(r) ==
    \/ ValidateEnvironment(r)
    \/ CreateS3Client(r)
    \/ CheckExists(r)
    \/ Mkdtemp(r)
    \/ Download(r)
    \/ UploadStart(r)
    \/ \E rel \in Rels : WorkerStart(r, rel)
    \/ \E rel \in Rels : WorkerFinish(r, rel)
    \/ AsCompleted(r)
    \/ ExecutorShutdown(r)
    \/ Except(r)
    \/ Finally(r)
    \/ ProcessExit(r)

Next == \E r \in Runs : Step(r)

Spec == Init /\ [][Next]_vars

(***************************************************************************)
(* Runs one after the other, as the pod's restarts give them: the same      *)
(* environment, the same repository, the store and the file system as the  *)
(* run before left them.                                                   *)
(***************************************************************************)
InitSeq ==
    /\ env = [r \in Runs |-> BaseEnv]
    /\ hub \in Snapshots
    /\ store = [b \in {T_bucket} |-> <<>>]
    /\ InitRuns({1}, DefaultMaxWorkers)
    /\ probe = NoProbe

\* The process is started again after the run before it has exited.  Of
\* the earlier process nothing is left but what it did to the store and to
\* the file system.
StartNextRun(r) ==
    /\ r - 1 \in Runs
    /\ pc[r] = "idle"
    /\ pc[r - 1] = "exited"
    /\ pc' = [pc EXCEPT ![r] = "main", ![r - 1] = "gone"]
    /\ config' = [config EXCEPT ![r - 1] = ConfigOf(<<>>)]
    /\ full_s3_prefix' = [full_s3_prefix EXCEPT ![r - 1] = <<>>]
    /\ download_dir' = [download_dir EXCEPT ![r - 1] = NoDir]
    /\ futures' = [futures EXCEPT ![r - 1] = <<>>]
    /\ yielded' = [yielded EXCEPT ![r - 1] = {}]
    /\ exc' = [exc EXCEPT ![r - 1] = "none"]
    /\ exit_arg' = [exit_arg EXCEPT ![r - 1] = 0]
    /\ exit_status' = [exit_status EXCEPT ![r - 1] = -1]
    /\ log' = [log EXCEPT ![r - 1] = "none"]
    /\ hist' = [hist EXCEPT ![r - 1] = NoHist]
    /\ UNCHANGED <<env, tmp_names, hub, store, fs, max_workers, probe>>

NextSeq == \E r \in Runs : Step(r) \/ StartNextRun(r)

SpecSeq == InitSeq /\ [][NextSeq]_vars

(***************************************************************************)
(* model_exists_in_s3 called on its own, as the tests call it: any bucket   *)
(* content, any prefix, any outcome of the request.                        *)
(***************************************************************************)
\* Keys and prefixes of the direct calls: "p/a", "p/ab", "q/a", "p"; and "",
\* "p", "p/", "p/a", "p/ab/", "q/", "r/".
ProbeKeys ==
    {<<"p","/","a">>, <<"p","/","a","b">>, <<"q","/","a">>, <<"p">>}

ProbePrefixes ==
    {<<>>, <<"p">>, <<"p","/">>, <<"p","/","a">>, <<"p","/","a","b","/">>,
     <<"q","/">>, <<"r","/">>}

\* The most keys the bucket of a direct call holds.
MaxProbeKeys == 3

InitExists ==
    /\ env = [r \in Runs |-> BaseEnv]
    /\ hub = {}
    /\ store \in {<<>>} \cup
                 {[b \in {T_bucket} |-> [k \in K |-> OldBytes]] :
                     K \in {S \in SUBSET ProbeKeys : Cardinality(S) <= MaxProbeKeys}}
    /\ InitRuns({}, DefaultMaxWorkers)
    /\ \E prefix \in ProbePrefixes, fault \in {"none"} \cup StoreFaults :
         probe = [fn |-> "model_exists_in_s3", bucket |-> T_bucket,
                  prefix |-> prefix, fault |-> fault,
                  done |-> FALSE, raised |-> "none", value |-> FALSE]

\* exists = model_exists_in_s3(s3_client, bucket, prefix)
ProbeExists ==
    /\ probe.fn = "model_exists_in_s3"
    /\ ~probe.done
    /\ LET listing == list_objects_v2(store, probe.bucket, probe.prefix,
                                      MaxKeys, probe.fault)
           res == model_exists_in_s3(listing)
       IN  probe' = [probe EXCEPT !.done = TRUE, !.raised = res.raised,
                                  !.value = res.value]
    /\ UNCHANGED <<env, tmp_names, hub, store, fs, pc, config, full_s3_prefix, download_dir,
                   max_workers, futures, yielded, exc, exit_arg, exit_status,
                   log, hist>>

NextExists == ProbeExists

SpecExists == InitExists /\ [][NextExists]_vars

(***************************************************************************)
(* upload_directory_to_s3 called on its own, as the tests call it: any     *)
(* local directory, any prefix, a small pool of workers.                   *)
(***************************************************************************)
\* The most files the local directory of a direct call holds.
MaxTreeFiles == 3

\* The most workers of a direct call.
MaxPool == 2

\* The local file system of a direct call: the directory does not exist, or
\* it holds some of c.txt, a/b.txt and d.bin.
UploadTrees ==
    {<<>>} \cup
    {[d \in {1} |-> S] : S \in {T \in SUBSET HubFiles : Cardinality(T) <= MaxTreeFiles}}

\* The prefixes of the direct calls: "p/", "p", "p/q" and "".
UploadPrefixes == {<<"p","/">>, <<"p">>, <<"p","/","q">>, <<>>}

\* The bucket of a direct call: empty, or holding an older object at "p/c.txt".
UploadStores ==
    {[b \in {T_bucket} |-> [k \in K |-> OldBytes]] :
        K \in {{}, {<<"p","/">> \o T_c_txt}}}

InitUpload ==
    /\ env = [r \in Runs |-> BaseEnv]
    /\ hub = {}
    /\ store \in UploadStores
    /\ fs \in UploadTrees
    /\ tmp_names = {}
    /\ pc = [r \in Runs |-> IF r = 1 THEN "upload_directory_to_s3" ELSE "idle"]
    /\ config = [r \in Runs |-> IF r = 1 THEN ConfigOf(BaseEnv) ELSE ConfigOf(<<>>)]
    /\ \E prefix \in UploadPrefixes :
         full_s3_prefix = [r \in Runs |-> IF r = 1 THEN prefix ELSE <<>>]
    /\ download_dir = [r \in Runs |-> IF r = 1 THEN 1 ELSE NoDir]
    /\ \E workers \in 1..MaxPool : max_workers = [r \in Runs |-> workers]
    /\ futures = [r \in Runs |-> <<>>]
    /\ yielded = [r \in Runs |-> {}]
    /\ exc = [r \in Runs |-> "none"]
    /\ exit_arg = [r \in Runs |-> 0]
    /\ exit_status = [r \in Runs |-> -1]
    /\ log = [r \in Runs |-> "none"]
    /\ hist = [r \in Runs |-> [NoHist EXCEPT !.store_before = store]]
    /\ probe = [fn |-> "upload_directory_to_s3"]

NextUpload ==
    \E r \in Runs :
        \/ UploadStart(r)
        \/ \E rel \in Rels : WorkerStart(r, rel)
        \/ \E rel \in Rels : WorkerFinish(r, rel)
        \/ AsCompleted(r)
        \/ ExecutorShutdown(r)

SpecUpload == InitUpload /\ [][NextUpload]_vars

(***************************************************************************)
(* Two processes started side by side, as the init containers of two pods  *)
(* are: each has its own environment and runs main from its start, and     *)
(* their steps interleave in any order.  They share the bucket, empty at   *)
(* the start, and the file system.  The repository of either model holds   *)
(* the files of hub.                                                       *)
(***************************************************************************)
T_a_b == <<"a","/","b">>

\* The model names of the two processes: the same name twice, two names
\* with nothing in common, and the name "a" with the name "a/b", which
\* validate_inputs both accepts.
PairNames == {<<T_gpt2, T_gpt2>>, <<T_gpt2, T_a_b>>, <<T_a, T_a_b>>, <<T_a_b, T_a>>}

\* The most files the repository of the two processes holds.
MaxPairFiles == 1

InitPair ==
    /\ \E names \in PairNames :
          env = [r \in Runs |->
                    EnvWith(BaseEnv, "MODEL_NAME", names[IF r = 1 THEN 1 ELSE 2])]
    /\ hub \in {S \in SUBSET HubFiles : Cardinality(S) <= MaxPairFiles}
    /\ store = [b \in {T_bucket} |-> <<>>]
    /\ InitRuns({1, 2}, DefaultMaxWorkers)
    /\ probe = NoProbe

NextPair == \E r \in {1, 2} : Step(r)

SpecPair == InitPair /\ [][NextPair]_vars

(***************************************************************************)
(* validate_inputs and mask_credential called on their own, as the tests   *)
(* call them.                                                              *)
(***************************************************************************)
\* The longest text the direct calls draw character by character.
MaxTextLen == 4

\* Every text of at most n characters of the alphabet.
Texts(alphabet, n) == UNION {[1..k -> alphabet] : k \in 0..n}

\* n times the character "a".
Long(n) == [i \in 1..n |-> "a"]

\* Model names: every short text of letters, digits, the three marks the
\* pattern allows, '/', the line feed and '!'.
ModelNames == Texts({"a", "Z", "7", ".", "-", "_", "/", NL, "!"}, MaxTextLen)

\* Bucket names: every short text of letters, digits, '.', '-', '_' and the
\* line feed, and names of 62 to 65 characters, with a final line feed too.
BucketNames ==
    Texts({"a", "Z", "7", ".", "-", "_", NL}, MaxTextLen)
    \cup {Long(n) : n \in 62..65}
    \cup {Long(n) \o <<NL>> : n \in 62..64}

\* Prefixes: every short text of 'a', '.' and '/'.
Prefixes == Texts({"a", ".", "/"}, MaxTextLen)

\* The arguments of the direct calls of validate_inputs: one argument ranges
\* while the others are valid, and a rejected model name, bucket and prefix
\* in every combination.
ValidateCalls ==
    (ModelNames \X {T_bucket} \X {DefaultPrefix})
    \cup ({T_gpt2} \X BucketNames \X {DefaultPrefix})
    \cup ({T_gpt2} \X {T_bucket} \X Prefixes)
    \cup ({T_gpt2, <<"!">>} \X {T_bucket, <<"A","B","C">>} \X {DefaultPrefix, <<"/","a">>})

\* The credential of the tests, "AKIATEST1234567890AB".
T_credential ==
    <<"A","K","I","A","T","E","S","T","1","2","3","4","5","6","7","8","9","0","A","B">>

\* The arguments of the direct calls of mask_credential: None and every piece
\* of the tests' credential, the empty one included.
MaskCalls ==
    {{}} \cup {{SubSeq(T_credential, i, j)} :
                  i \in 1..Len(T_credential), j \in 0..Len(T_credential)}

InitCalls ==
    /\ env = [r \in Runs |-> BaseEnv]
    /\ hub = {}
    /\ store = <<>>
    /\ InitRuns({}, DefaultMaxWorkers)
    /\ \/ \E call \in ValidateCalls :
             probe = [fn |-> "validate_inputs", model_name |-> call[1],
                      s3_bucket |-> call[2], s3_prefix |-> call[3],
                      done |-> FALSE, raised |-> FALSE, field |-> "none"]
       \/ \E value \in MaskCalls :
             probe = [fn |-> "mask_credential", value |-> value,
                      done |-> FALSE, result |-> <<>>]

\* validate_inputs(model_name, s3_bucket, s3_prefix)
ProbeValidate ==
    /\ probe.fn = "validate_inputs"
    /\ ~probe.done
    /\ LET res == validate_inputs(probe.model_name, probe.s3_bucket, probe.s3_prefix)
       IN  probe' = [probe EXCEPT !.done = TRUE, !.raised = res.raised,
                                  !.field = res.field]
    /\ UNCHANGED <<env, tmp_names, hub, store, fs, pc, config, full_s3_prefix, download_dir,
                   max_workers, futures, yielded, exc, exit_arg, exit_status,
                   log, hist>>

\* result = mask_credential(value)
ProbeMask ==
    /\ probe.fn = "mask_credential"
    /\ ~probe.done
    /\ probe' = [probe EXCEPT !.done = TRUE, !.result = mask_credential(probe.value)]
    /\ UNCHANGED <<env, tmp_names, hub, store, fs, pc, config, full_s3_prefix, download_dir,
                   max_workers, futures, yielded, exc, exit_arg, exit_status,
                   log, hist>>

NextCalls == ProbeValidate \/ ProbeMask

SpecCalls == InitCalls /\ [][NextCalls]_vars

(***************************************************************************)
(* What the claims speak of.                                               *)
(***************************************************************************)
\* The run is over: the process has exited.
Exited(r) == pc[r] = "exited"

\* The run can take a step (its main thread or one of its workers).
CanStep(r) == ENABLED Step(r)

\* upload_file has not been called in the run.
NoPut(r) == \A rel \in DOMAIN hist[r].put_calls : hist[r].put_calls[rel] = 0

\* The fetch failed: snapshot_download raised, or the path it returned does
\* not exist.
FetchFailed(r) == hist[r].fetch = "raised" \/ hist[r].returned = "missing"

\* The fetch succeeded: snapshot_download returned a path that exists.
FetchSucceeded(r) == hist[r].fetch = "returned" /\ hist[r].returned # "missing"

\* An upload task of the run failed.
SomeTaskFailed(r) ==
    \E rel \in DOMAIN futures[r] : futures[r][rel].state \in UploadFaults

\* The upload was called and every one of its tasks succeeded.
AllTasksSucceeded(r) ==
    /\ hist[r].uploads = 1
    /\ \A rel \in DOMAIN futures[r] : futures[r][rel].state = "FINISHED"

\* Key k is stored in the run's bucket.
Stored(r, k) ==
    /\ config[r].s3_bucket \in DOMAIN store
    /\ k \in DOMAIN store[config[r].s3_bucket]

\* The directory the run created, if any, exists.
RunDirExists(r) == hist[r].dirs_created \cap DOMAIN fs # {}

(***************************************************************************)
(* C1.  When the existence check is positive the run exits with status 0,  *)
(* and the run never calls the fetch, creates no local directory, issues   *)
(* no upload and never calls cleanup_local_files; it is never stuck on the *)
(* way to its exit.                                                        *)
(***************************************************************************)
C1_ExistingModelSkipsEverything ==
    \A r \in Runs :
        hist[r].exists = "true" =>
            /\ hist[r].fetch_calls = 0
            /\ hist[r].dirs_created = {}
            /\ download_dir[r] = NoDir
            /\ hist[r].uploads = 0
            /\ futures[r] = <<>>
            /\ NoPut(r)
            /\ hist[r].cleanup_calls = 0
            /\ pc[r] \in {"finally", "exit", "exited"}
            /\ Exited(r) => exit_status[r] = 0
            /\ ~Exited(r) => CanStep(r)

\* A run whose existence check was positive has exited with status 0.
C1_Witness ==
    \E r \in Runs : hist[r].exists = "true" /\ Exited(r) /\ exit_status[r] = 0

(***************************************************************************)
(* C2, as stated.  When the existence check is negative, the fetch         *)
(* succeeds and every upload task succeeds, the run exits with status 0,   *)
(* every fetched file is stored under the key prefix, and the local        *)
(* directory no longer exists when the process has exited.                 *)
(***************************************************************************)
C2_DirectoryRemovedOnSuccess ==
    \A r \in Runs :
        (/\ Exited(r)
         /\ hist[r].exists = "false"
         /\ FetchSucceeded(r)
         /\ AllTasksSucceeded(r)) =>
            /\ exit_status[r] = 0
            /\ \A f \in hist[r].fetched : Stored(r, full_s3_prefix[r] \o JoinPath(f))
            /\ ~RunDirExists(r)

(***************************************************************************)
(* C2, amended.  When the existence check is negative, the fetch succeeds  *)
(* and every upload task succeeds, the run exits with status 0, every      *)
(* fetched file is stored under the key prefix, and cleanup of the local   *)
(* directory has been called once before the process exits; the directory  *)
(* is gone unless its removal failed.                                      *)
(***************************************************************************)
C2_UploadedAndCleanedOnSuccess ==
    \A r \in Runs :
        (/\ hist[r].exists = "false"
         /\ FetchSucceeded(r)
         /\ AllTasksSucceeded(r)) =>
            /\ \A f \in hist[r].fetched : Stored(r, full_s3_prefix[r] \o JoinPath(f))
            /\ ~Exited(r) => CanStep(r)
            /\ Exited(r) =>
                 /\ exit_status[r] = 0
                 /\ hist[r].cleanup_calls = 1
                 /\ ~hist[r].rmtree_failed => ~RunDirExists(r)

\* A run fetched two files, uploaded both, removed its directory and exited
\* with status 0.
C2_Witness ==
    \E r \in Runs :
        /\ Exited(r) /\ exit_status[r] = 0
        /\ hist[r].exists = "false" /\ FetchSucceeded(r) /\ AllTasksSucceeded(r)
        /\ Cardinality(hist[r].fetched) = 2
        /\ Cardinality(DOMAIN futures[r]) = 2
        /\ hist[r].dirs_created # {} /\ ~RunDirExists(r)

(***************************************************************************)
(* C3.  When the fetch succeeds and at least one upload task fails, with   *)
(* whatever exception, the run does not report success, it exits with      *)
(* status 1, and cleanup_local_files has been called exactly once when the *)
(* process exits.                                                          *)
(***************************************************************************)
C3_UploadFailureExitsOneAfterCleanup ==
    \A r \in Runs :
        (FetchSucceeded(r) /\ SomeTaskFailed(r)) =>
            /\ log[r] # "SUCCESS"
            /\ hist[r].cleanup_calls <= 1
            /\ ~Exited(r) => CanStep(r)
            /\ Exited(r) => exit_status[r] = 1 /\ hist[r].cleanup_calls = 1

\* A run in which one task failed and another succeeded has exited with
\* status 1 after one cleanup.
C3_Witness ==
    \E r \in Runs :
        /\ Exited(r) /\ exit_status[r] = 1 /\ hist[r].cleanup_calls = 1
        /\ FetchSucceeded(r) /\ SomeTaskFailed(r)
        /\ \E rel \in DOMAIN futures[r] : futures[r][rel].state = "FINISHED"

(***************************************************************************)
(* C4.  Cleanup is unconditional: cleanup_local_files is called at most    *)
(* once, only on the directory the run created and only in the finally     *)
(* clause; when the process has exited it has been called exactly once if  *)
(* the run created a directory, and never if it created none.              *)
(***************************************************************************)
C4_CleanupExactlyWhenDirectoryCreated ==
    \A r \in Runs :
        /\ hist[r].cleanup_calls <= 1
        /\ hist[r].cleanup_calls = 1 =>
             /\ download_dir[r] \in hist[r].dirs_created
             /\ pc[r] \in {"exit", "exited"}
        /\ Exited(r) =>
             hist[r].cleanup_calls = IF hist[r].dirs_created # {} THEN 1 ELSE 0

\* A run that failed with an exception only the catch-all clause handles has
\* exited after one cleanup of the directory it created.
C4_Witness ==
    \E r \in Runs :
        /\ Exited(r)
        /\ hist[r].dirs_created # {}
        /\ hist[r].handler = "An unexpected error occurred"
        /\ hist[r].cleanup_calls = 1

(***************************************************************************)
(* C5.  A failure of the removal never changes the exit outcome: after     *)
(* cleanup_local_files, whether shutil.rmtree raised or not, the exception *)
(* in flight is still the SystemExit of before (cleanup raised nothing),   *)
(* and the exit status is 0 exactly when the fetch and every upload task   *)
(* succeeded, and 1 otherwise.                                             *)
(***************************************************************************)
C5_CleanupFailureKeepsExitStatus ==
    \A r \in Runs :
        hist[r].cleanup_calls > 0 =>
            /\ exc[r] = "SystemExit"
            /\ Exited(r) =>
                 exit_status[r] =
                    IF FetchSucceeded(r) /\ AllTasksSucceeded(r) THEN 0 ELSE 1

\* A run whose upload succeeded and whose directory could not be removed has
\* exited with status 0.
C5_Witness ==
    \E r \in Runs :
        /\ Exited(r) /\ exit_status[r] = 0
        /\ hist[r].rmtree_failed /\ RunDirExists(r)
        /\ DOMAIN futures[r] # {}

(***************************************************************************)
(* C6.  The exit status is 0 or 1 and no other: 0 exactly when the         *)
(* existence check was positive or the fetch and every upload task         *)
(* succeeded, and 1 whenever validate_environment exited, or an except   *)
(* clause of main ran (existence check, fetch, file system, upload or      *)
(* unclassified error).                                                    *)
(***************************************************************************)
C6_ExitStatusZeroOrOne ==
    \A r \in Runs :
        /\ ~Exited(r) => exit_status[r] = -1
        /\ Exited(r) =>
             /\ exit_status[r] \in {0, 1}
             /\ exit_status[r] = 0 <=>
                    \/ hist[r].exists = "true"
                    \/ FetchSucceeded(r) /\ AllTasksSucceeded(r)
             /\ hist[r].handler # "none" => exit_status[r] = 1
             /\ env[r] \in InvalidEnvs => exit_status[r] = 1

\* A run has exited with status 1 through the catch-all except clause.
C6_Witness ==
    \E r \in Runs :
        /\ Exited(r) /\ exit_status[r] = 1
        /\ hist[r].handler = "An unexpected error occurred"

(***************************************************************************)
(* C7.  Validation gates all I/O: a run whose environment lacks a required *)
(* variable, or holds a model name, bucket or prefix that validate_inputs  *)
(* must reject, creates no S3 client, sends no listing and no upload       *)
(* request, does not call the fetch, creates no directory and calls no     *)
(* cleanup, and exits with status 1.                                       *)
(***************************************************************************)
C7_ValidationGatesAllIO ==
    \A r \in Runs :
        (env[r] \in InvalidEnvs /\ pc[r] \notin {"idle", "main"}) =>
            /\ hist[r].client_created = 0
            /\ hist[r].list_calls = 0
            /\ hist[r].fetch_calls = 0
            /\ hist[r].dirs_created = {}
            /\ hist[r].uploads = 0
            /\ NoPut(r)
            /\ hist[r].cleanup_calls = 0
            /\ pc[r] \in {"finally", "exit", "exited"}
            /\ Exited(r) => exit_status[r] = 1

\* A run with a bucket name validate_inputs rejects has exited with status 1.
C7_Witness ==
    \E r \in Runs :
        /\ Exited(r) /\ exit_status[r] = 1
        /\ env[r] = EnvWith(BaseEnv, "S3_BUCKET", <<"A","B","C">>)

(***************************************************************************)
(* C8.  When the fetch fails, the fetch is not called again, no upload is  *)
(* started, the run does not report success, and when the process has      *)
(* exited its status is 1 and cleanup_local_files has been called on the   *)
(* directory.                                                              *)
(***************************************************************************)
C8_FetchFailureIsFatal ==
    \A r \in Runs :
        FetchFailed(r) =>
            /\ hist[r].fetch_calls = 1
            /\ hist[r].uploads = 0
            /\ futures[r] = <<>>
            /\ NoPut(r)
            /\ log[r] # "SUCCESS"
            /\ pc[r] \in {"except", "finally", "exit", "exited"}
            /\ Exited(r) => exit_status[r] = 1 /\ hist[r].cleanup_calls = 1

\* A fetch that raised after writing a file has led to an exit with status 1
\* after the directory was removed.
C8_Witness ==
    \E r \in Runs :
        /\ Exited(r) /\ exit_status[r] = 1
        /\ hist[r].fetch = "raised" /\ hist[r].fetched # {}
        /\ hist[r].cleanup_calls = 1 /\ ~RunDirExists(r)

(***************************************************************************)
(* C9.  When the listing request of the existence check fails, whatever    *)
(* the exception, model_exists_in_s3 raises instead of answering, and the  *)
(* run calls no fetch, creates no directory and exits with status 1.       *)
(***************************************************************************)
C9_ListingFailureRaises ==
    \A r \in Runs :
        hist[r].list_raised # "none" =>
            /\ hist[r].exists = "raised"
            /\ hist[r].fetch_calls = 0
            /\ hist[r].dirs_created = {}
            /\ pc[r] \in {"except", "finally", "exit", "exited"}
            /\ Exited(r) => exit_status[r] = 1

\* A listing request that failed with an exception other than ClientError
\* has led to an exit with status 1.
C9_Witness ==
    \E r \in Runs :
        /\ hist[r].list_raised = "Exception"
        /\ Exited(r) /\ exit_status[r] = 1

(***************************************************************************)
(* C10.  For every bucket content and every prefix, a call of              *)
(* model_exists_in_s3 whose request is answered returns true if and only   *)
(* if at least one stored key starts with the prefix; it raises only when  *)
(* the request fails or the bucket does not exist.                         *)
(***************************************************************************)
C10_ExistsIffSomeKeyHasPrefix ==
    (probe.fn = "model_exists_in_s3" /\ probe.done) =>
        /\ probe.raised = "none" <=>
              (probe.fault = "none" /\ probe.bucket \in DOMAIN store)
        /\ probe.raised = "none" =>
              (probe.value <=>
                  \E k \in DOMAIN store[probe.bucket] :
                      /\ Len(probe.prefix) <= Len(k)
                      /\ \A i \in 1..Len(probe.prefix) : k[i] = probe.prefix[i])

\* A call on a bucket that holds keys, none of them under the prefix, has
\* returned false.
C10_Witness ==
    /\ probe.fn = "model_exists_in_s3" /\ probe.done
    /\ probe.raised = "none" /\ ~probe.value
    /\ probe.bucket \in DOMAIN store
    /\ DOMAIN store[probe.bucket] # {}

(***************************************************************************)
(* More of what the claims speak of.                                       *)
(***************************************************************************)
\* The keys stored under the run's full prefix.
KeysUnderPrefix(r) ==
    IF config[r].s3_bucket \in DOMAIN store
    THEN {k \in DOMAIN store[config[r].s3_bucket] : StartsWith(k, full_s3_prefix[r])}
    ELSE {}

\* The keys that were stored in the run's bucket when the run started.
KeysBefore(r) ==
    IF config[r].s3_bucket \in DOMAIN hist[r].store_before
    THEN DOMAIN hist[r].store_before[config[r].s3_bucket]
    ELSE {}

\* What an existence check of the run's prefix answers now, when the request
\* is answered.
ExistsNow(r) ==
    model_exists_in_s3(list_objects_v2(store, config[r].s3_bucket,
                                       full_s3_prefix[r], MaxKeys, "none"))

\* The download returned and left no file in the directory.
FetchedNothing(r) == FetchSucceeded(r) /\ hist[r].fetched = {}

(***************************************************************************)
(* C11: whenever a run exits with status 0, at least one object is stored  *)
(* under the run's key prefix, so that an existence check that follows at  *)
(* once is positive.                                                       *)
(* A repository without files refutes it: download_model_from_hf warns     *)
(* that no file was downloaded, upload_directory_to_s3 warns "No files to  *)
(* upload" and returns, and main logs SUCCESS and exits 0 with nothing     *)
(* stored.                                                                 *)
(***************************************************************************)
C11_ExitZeroMeansStored ==
    \A r \in Runs :
        (Exited(r) /\ exit_status[r] = 0) =>
            /\ KeysUnderPrefix(r) # {}
            /\ ExistsNow(r).raised = "none" /\ ExistsNow(r).value

(***************************************************************************)
(* C12: after any run that exits with status 1, the store holds no object  *)
(* under the run's key prefix that was not there when the run started.     *)
(* An upload in which one task stores its object and another fails refutes *)
(* it: nothing removes the object that was stored.                         *)
(***************************************************************************)
C12_NoNewObjectAfterFailure ==
    \A r \in Runs :
        (Exited(r) /\ exit_status[r] = 1) => KeysUnderPrefix(r) \subseteq KeysBefore(r)

\* The prefix with a '/' at its end: the prefix itself when it ends in '/',
\* the prefix and a '/' otherwise.
WithSlash(prefix) ==
    IF prefix # <<>> /\ prefix[Len(prefix)] = "/" THEN prefix ELSE prefix \o <<"/">>

\* The path of a file below its directory, written with '/' between its
\* components (the files of the model lie at most one directory deep).
SlashPath(f) == IF Len(f) = 1 THEN f[1] ELSE f[1] \o <<"/">> \o f[2]

\* The files below the local directory of the run's upload.
LocalFiles(r) == IF download_dir[r] \in DOMAIN fs THEN fs[download_dir[r]] ELSE {}

\* The objects of the run's bucket, and those it held when the run started.
Bucket(r) == store[config[r].s3_bucket]
BucketBefore(r) == hist[r].store_before[config[r].s3_bucket]

(***************************************************************************)
(* C13: a successful upload_directory_to_s3(local_dir, bucket, s3_prefix)  *)
(* writes exactly the keys normalised prefix + relative path (with '/'     *)
(* between the components), one for every file below local_dir, and no     *)
(* other key, each with the bytes of its file; what the bucket held at     *)
(* other keys is as it was.  Files a/b.txt and c.txt under the prefix p/   *)
(* give exactly p/a/b.txt and p/c.txt.                                     *)
(***************************************************************************)
C13_UploadWritesExactlyTheTree ==
    \A r \in Runs :
        pc[r] = "returned" =>
            LET np == WithSlash(full_s3_prefix[r])
                expected == {np \o SlashPath(f) : f \in LocalFiles(r)}
            IN  /\ DOMAIN Bucket(r) = DOMAIN BucketBefore(r) \cup expected
                /\ \A f \in LocalFiles(r) : Bucket(r)[np \o SlashPath(f)] = FileBytes(f)
                /\ \A k \in DOMAIN BucketBefore(r) \ expected :
                       Bucket(r)[k] = BucketBefore(r)[k]
                /\ (/\ LocalFiles(r) = {<<T_a, T_b_txt>>, <<T_c_txt>>}
                    /\ full_s3_prefix[r] = <<"p","/">>) =>
                       DOMAIN Bucket(r) = {<<"p","/","a","/">> \o T_b_txt,
                                           <<"p","/">> \o T_c_txt}

\* The upload of a/b.txt and c.txt under p/ has returned, and the object the
\* bucket held at p/c.txt has the bytes of c.txt now.
C13_Witness ==
    /\ pc[1] = "returned"
    /\ LocalFiles(1) = {<<T_a, T_b_txt>>, <<T_c_txt>>}
    /\ full_s3_prefix[1] = <<"p","/">>
    /\ <<"p","/">> \o T_c_txt \in DOMAIN BucketBefore(1)
    /\ Bucket(1)[<<"p","/">> \o T_c_txt] = FileBytes(<<T_c_txt>>)
    /\ Bucket(1)[<<"p","/">> \o T_c_txt] # BucketBefore(1)[<<"p","/">> \o T_c_txt]

\* The destination keys of the futures the run's upload submitted.
SubmittedKeys(r) == {futures[r][rel].s3_key : rel \in DOMAIN futures[r]}

\* The destination keys upload_directory_to_s3 computes for the run's local
\* directory when it is called with the given prefix.
KeysFor(r, prefix) ==
    LET files == FilesToUpload(fs, download_dir[r], prefix)
    IN  {files[rel].s3_key : rel \in DOMAIN files}

(***************************************************************************)
(* C14: for every local directory and every prefix P that does not end in  *)
(* '/', upload_directory_to_s3 with the prefix P and with the prefix       *)
(* P + '/' produce the same set of destination keys: the keys the call     *)
(* with P submits, and stores when it returns, are those of the call with  *)
(* P + '/'.                                                                *)
(***************************************************************************)
C14_PrefixWithAndWithoutSlash ==
    \A r \in Runs :
        (/\ hist[r].uploads = 1
         /\ ~EndsWith(full_s3_prefix[r], <<"/">>)) =>
            /\ SubmittedKeys(r) = KeysFor(r, full_s3_prefix[r] \o <<"/">>)
            /\ pc[r] = "returned" =>
                 DOMAIN Bucket(r) \ DOMAIN BucketBefore(r)
                     = KeysFor(r, full_s3_prefix[r] \o <<"/">>) \ DOMAIN BucketBefore(r)

\* The upload of c.txt and d.bin under "p/q" has returned and stored p/q/c.txt
\* and p/q/d.bin.
C14_Witness ==
    /\ pc[1] = "returned"
    /\ full_s3_prefix[1] = <<"p","/","q">>
    /\ LocalFiles(1) = {<<T_c_txt>>, <<T_d_bin>>}
    /\ DOMAIN Bucket(1) \ DOMAIN BucketBefore(1)
           = {<<"p","/","q","/">> \o T_c_txt, <<"p","/","q","/">> \o T_d_bin}

(***************************************************************************)
(* C15: when the local directory holds no file, upload_directory_to_s3     *)
(* returns without raising, without submitting a task, starting a worker   *)
(* or calling upload_file, and the run that called it is not failed by     *)
(* this: no except clause of main runs, main logs SUCCESS and the run      *)
(* exits with status 0.                                                    *)
(***************************************************************************)
C15_NoFilesIsNotAFailure ==
    \A r \in Runs :
        (hist[r].uploads = 1 /\ FetchedNothing(r)) =>
            /\ futures[r] = <<>> /\ Running(r) = {}
            /\ hist[r].put_calls = <<>>
            /\ store = hist[r].store_before
            /\ exc[r] = "SystemExit" /\ exit_arg[r] = 0
            /\ hist[r].handler = "none" /\ log[r] = "SUCCESS"
            /\ CanStep(r) \/ (Exited(r) /\ exit_status[r] = 0)

\* A run whose download returned its directory with no file in it called the
\* upload and exited with status 0.
C15_Witness ==
    \E r \in Runs :
        /\ hist[r].uploads = 1 /\ hist[r].returned = "same" /\ hist[r].fetched = {}
        /\ Exited(r) /\ exit_status[r] = 0 /\ hist[r].cleanup_calls = 1

(***************************************************************************)
(* C16: for every set of files and every order in which the upload tasks   *)
(* end, if the upload_file of at least one task fails then                 *)
(* upload_directory_to_s3 does not return: it goes on until it raises, and *)
(* what it raises is the exception of a task that failed.                  *)
(***************************************************************************)
C16_NoTaskFailureSwallowed ==
    \A r \in Runs :
        SomeTaskFailed(r) =>
            /\ pc[r] # "returned"
            /\ pc[r] = "raised" \/ CanStep(r)
            /\ pc[r] = "raised" =>
                 \E rel \in yielded[r] :
                     /\ futures[r][rel].state \in UploadFaults
                     /\ exc[r] = futures[r][rel].state

\* An upload raised the OSError of one task after the loop had seen another
\* task succeed.
C16_Witness ==
    /\ pc[1] = "raised" /\ exc[1] = "OSError"
    /\ \E rel \in yielded[1] : futures[1][rel].state = "FINISHED"
    /\ Cardinality(DOMAIN futures[1]) = 3

\* The futures of the run that wait for a worker.
Pending(r) == {rel \in DOMAIN futures[r] : futures[r][rel].state = "PENDING"}

(***************************************************************************)
(* C17: in every reachable state of upload_directory_to_s3 the number of   *)
(* upload_file calls in flight is at most max_workers, however many files  *)
(* were collected.                                                         *)
(***************************************************************************)
C17_InFlightAtMostPoolSize ==
    \A r \in Runs : Cardinality(Running(r)) <= max_workers[r]

\* Both workers of a pool of two are busy while a third file waits.
C17_Witness ==
    /\ max_workers[1] = 2
    /\ Cardinality(Running(1)) = 2
    /\ Pending(1) # {}

(***************************************************************************)
(* C18: within one call of upload_directory_to_s3 every collected file     *)
(* gives exactly one task, every task is executed by one worker, and       *)
(* upload_file is called at most once for a file: exactly once when its    *)
(* task has started, and never again after it failed.                      *)
(***************************************************************************)
C18_OneTaskOnePutPerFile ==
    \A r \in Runs :
        hist[r].uploads = 1 =>
            /\ Cardinality(DOMAIN futures[r]) = Cardinality(LocalFiles(r))
            /\ \A f \in LocalFiles(r) :
                   \E rel \in DOMAIN futures[r] :
                       /\ futures[r][rel].local_file_path = f
                       /\ \A other \in DOMAIN futures[r] :
                              futures[r][other].local_file_path = f => other = rel
            /\ DOMAIN hist[r].put_calls = DOMAIN futures[r]
            /\ \A rel \in DOMAIN futures[r] :
                   hist[r].put_calls[rel] = IF rel \in Pending(r) THEN 0 ELSE 1

\* An upload of three files has raised: one task failed, and upload_file was
\* called once for each of the three.
C18_Witness ==
    /\ pc[1] = "raised"
    /\ Cardinality(DOMAIN futures[1]) = 3
    /\ \A rel \in DOMAIN futures[1] : hist[1].put_calls[rel] = 1
    /\ Cardinality({rel \in DOMAIN futures[1] :
                        futures[1][rel].state \in UploadFaults}) = 1

(***************************************************************************)
(* C19: upload_directory_to_s3 hands a failure to its caller only after    *)
(* every upload task has finished: when it has returned or raised, no      *)
(* worker is executing an upload_file and no task waits to be started.     *)
(***************************************************************************)
C19_NoWorkerRunsAfterUploadEnds ==
    \A r \in Runs :
        pc[r] \in {"returned", "raised"} =>
            /\ Running(r) = {} /\ Pending(r) = {}
            /\ \A rel \in DOMAIN futures[r] : hist[r].put_calls[rel] = 1

\* An upload has raised the failure of its first task, and a task that was
\* started after the loop saw that failure has stored its object.
C19_Witness ==
    /\ pc[1] = "raised"
    /\ hist[1].started_after_raise
    /\ \E rel \in DOMAIN futures[1] \ yielded[1] : futures[1][rel].state = "FINISHED"

(***************************************************************************)
(* C20: if the path the download returns differs from the directory that   *)
(* was asked for, the run treats this as fatal: it uploads nothing, does   *)
(* not log SUCCESS and exits with status 1.                                *)
(* A path that differs and exists refutes it: download_model_from_hf only  *)
(* checks that the returned path exists, and main drops the value          *)
(* download_model_from_hf returns and uploads download_dir.                *)
(***************************************************************************)
C20_PathMismatchIsFatal ==
    \A r \in Runs :
        hist[r].returned = "other" =>
            /\ hist[r].uploads = 0
            /\ NoPut(r)
            /\ log[r] # "SUCCESS"
            /\ Exited(r) => exit_status[r] = 1

\* The S3_PREFIX of the run's environment, or its default.
EnvPrefix(r) ==
    IF "S3_PREFIX" \in DOMAIN env[r] THEN env[r]["S3_PREFIX"]
    ELSE <<"m","o","d","e","l","s","/">>

\* The full prefix is what the listing request was given, and what the upload
\* was given and put before every relative path.
SamePrefixEverywhere(r) ==
    /\ hist[r].list_calls = 1 => hist[r].list_prefix = full_s3_prefix[r]
    /\ hist[r].uploads = 1 =>
         /\ hist[r].upload_prefix = full_s3_prefix[r]
         /\ \A rel \in DOMAIN futures[r] :
                futures[r][rel].s3_key = full_s3_prefix[r] \o rel

(***************************************************************************)
(* C21 (as stated): for every validated configuration the key prefix of    *)
(* the run equals S3_PREFIX + MODEL_NAME + "/", ends with '/', and the     *)
(* same string is the prefix of the existence check and the destination    *)
(* root of the upload.  An S3_PREFIX that is not empty and has no final    *)
(* '/' refutes it: main puts a '/' between it and the model name.          *)
(***************************************************************************)
C21_PrefixIsPlainConcatenation ==
    \A r \in Runs :
        hist[r].client_created = 1 =>
            /\ full_s3_prefix[r] = EnvPrefix(r) \o env[r]["MODEL_NAME"] \o <<"/">>
            /\ EndsWith(full_s3_prefix[r], <<"/">>)
            /\ SamePrefixEverywhere(r)

(***************************************************************************)
(* C21 (amended): for every validated configuration the key prefix of the  *)
(* run equals S3_PREFIX, followed by a '/' when S3_PREFIX is not empty and *)
(* does not end with one, followed by MODEL_NAME and "/"; it ends with     *)
(* '/', and the same string is the prefix of the existence check and the   *)
(* destination root of the upload.                                         *)
(***************************************************************************)
C21_PrefixIsNormalisedConcatenation ==
    \A r \in Runs :
        hist[r].client_created = 1 =>
            /\ full_s3_prefix[r] =
                   (IF EnvPrefix(r) = <<>> THEN <<>> ELSE WithSlash(EnvPrefix(r)))
                       \o env[r]["MODEL_NAME"] \o <<"/">>
            /\ EndsWith(full_s3_prefix[r], <<"/">>)
            /\ SamePrefixEverywhere(r)

\* A run with S3_PREFIX "cache" has checked "cache/gpt2/" and stored an
\* object under it.
C21_Witness ==
    \E r \in Runs :
        /\ env[r] = EnvWith(BaseEnv, "S3_PREFIX", T_cache)
        /\ hist[r].list_calls = 1 /\ hist[r].uploads = 1
        /\ hist[r].list_prefix = T_cache \o <<"/">> \o T_gpt2 \o <<"/">>
        /\ \E k \in KeysUnderPrefix(r) \ KeysBefore(r) :
               StartsWith(k, T_cache \o <<"/">> \o T_gpt2 \o <<"/">>)

\* Letters and digits.
Alnum == Lower \cup Upper \cup Digit

\* The positions of the character in the text.
Positions(s, ch) == {i \in 1..Len(s) : s[i] = ch}

\* A direct call of validate_inputs has ended.
Validated == probe.fn = "validate_inputs" /\ probe.done

\* The model name is one segment, or two segments with one '/' between them,
\* each starting with a letter or digit and made of letters, digits, '.',
\* '-' and '_'.
WellFormedModelName(m) ==
    /\ Len(m) >= 1
    /\ \A i \in 1..Len(m) : m[i] \in Alnum \cup {".", "-", "_", "/"}
    /\ Cardinality(Positions(m, "/")) <= 1
    /\ m[1] \in Alnum
    /\ \A i \in Positions(m, "/") : i < Len(m) /\ m[i + 1] \in Alnum

\* The bucket name has 3 to 63 characters, all of them lowercase letters,
\* digits, '.' or '-', the first and the last a letter or digit.
WellFormedBucket(b) ==
    /\ Len(b) >= 3 /\ Len(b) <= 63
    /\ \A i \in 1..Len(b) : b[i] \in Lower \cup Digit \cup {".", "-"}
    /\ b[1] \in Lower \cup Digit
    /\ b[Len(b)] \in Lower \cup Digit

(***************************************************************************)
(* C22: with a valid bucket and prefix, validate_inputs succeeds if and    *)
(* only if the model name is one segment, or two segments separated by     *)
(* exactly one '/', each starting with an alphanumeric character and       *)
(* otherwise made of alphanumerics, '.', '-' and '_'; every other text is  *)
(* rejected with an error naming MODEL_NAME.                               *)
(* A well-formed name followed by a line feed refutes it: the pattern's $  *)
(* matches before a final line feed, so "a\n" is accepted.                 *)
(***************************************************************************)
C22_ModelNameAcceptedIffWellFormed ==
    (Validated /\ probe.s3_bucket = T_bucket /\ probe.s3_prefix = DefaultPrefix) =>
        /\ ~probe.raised <=> WellFormedModelName(probe.model_name)
        /\ ~WellFormedModelName(probe.model_name) => probe.field = "MODEL_NAME"

(***************************************************************************)
(* C23: validate_inputs fails for every input whose model name contains    *)
(* "..", starts with '/', contains a character that is not allowed, or has *)
(* more than one '/'; so no accepted configuration gives a key prefix that *)
(* contains "..".                                                          *)
(* The name "a..a" refutes it: '.' is in the pattern's character class and *)
(* only S3_PREFIX is searched for "..".                                    *)
(***************************************************************************)
C23_TraversalNamesRejected ==
    Validated =>
        /\ (\/ Contains2(probe.model_name, ".", ".")
            \/ StartsWith(probe.model_name, <<"/">>)
            \/ \E i \in 1..Len(probe.model_name) :
                   probe.model_name[i] \notin Alnum \cup {".", "-", "_", "/"}
            \/ Cardinality(Positions(probe.model_name, "/")) > 1) => probe.raised
        /\ ~probe.raised =>
               ~Contains2(FullS3Prefix([s3_prefix |-> probe.s3_prefix,
                                        model_name |-> probe.model_name]), ".", ".")

(***************************************************************************)
(* C24: with a valid model name and prefix, validate_inputs succeeds if    *)
(* and only if the bucket has 3 to 63 characters, all of them lowercase    *)
(* letters, digits, '.' or '-', the first and the last alphanumeric; every *)
(* other bucket is rejected with an error naming S3_BUCKET.                *)
(* A well-formed bucket followed by a line feed refutes it: "aaa\n" is     *)
(* accepted.                                                               *)
(***************************************************************************)
C24_BucketAcceptedIffWellFormed ==
    (Validated /\ probe.model_name = T_gpt2 /\ probe.s3_prefix = DefaultPrefix) =>
        /\ ~probe.raised <=> WellFormedBucket(probe.s3_bucket)
        /\ ~WellFormedBucket(probe.s3_bucket) => probe.field = "S3_BUCKET"

(***************************************************************************)
(* C25: with a valid model name and bucket, validate_inputs rejects the    *)
(* prefix if and only if it contains ".." or starts with '/', with an      *)
(* error naming S3_PREFIX; the empty prefix is accepted.                   *)
(***************************************************************************)
C25_PrefixRejectedIffTraversalOrAbsolute ==
    (Validated /\ probe.model_name = T_gpt2 /\ probe.s3_bucket = T_bucket) =>
        /\ probe.raised <=>
               \/ \E i \in 1..(Len(probe.s3_prefix) - 1) :
                      probe.s3_prefix[i] = "." /\ probe.s3_prefix[i + 1] = "."
               \/ (Len(probe.s3_prefix) >= 1 /\ probe.s3_prefix[1] = "/")
        /\ probe.raised => probe.field = "S3_PREFIX"
        /\ probe.s3_prefix = <<>> => ~probe.raised

\* The call with the empty prefix has returned without an error.
C25_Witness ==
    /\ Validated /\ probe.model_name = T_gpt2 /\ probe.s3_bucket = T_bucket
    /\ probe.s3_prefix = <<>> /\ ~probe.raised

\* A direct call of mask_credential has ended.
Masked == probe.fn = "mask_credential" /\ probe.done

(***************************************************************************)
(* C26: for every credential value v, mask_credential(v) is "***" when v   *)
(* is None, empty or shorter than 8 characters, and otherwise the first 4  *)
(* characters of v, then "***", then the last 4 characters of v;           *)
(* "AKIATEST1234567890AB" gives "AKIA***90AB".                             *)
(***************************************************************************)
C26_MaskShowsFirstAndLastFour ==
    Masked =>
        /\ probe.value = {} => probe.result = <<"*","*","*">>
        /\ \A v \in probe.value :
               LET n == Len(v)
               IN  probe.result =
                       IF n <= 7 THEN <<"*","*","*">>
                       ELSE <<v[1], v[2], v[3], v[4], "*", "*", "*",
                              v[n - 3], v[n - 2], v[n - 1], v[n]>>
        /\ probe.value = {T_credential} =>
               probe.result = <<"A","K","I","A","*","*","*","9","0","A","B">>

\* The call with a credential of exactly 8 characters, "AKIATEST", has
\* returned "AKIA***TEST".
C26_Witness ==
    /\ Masked
    /\ probe.value = {<<"A","K","I","A","T","E","S","T">>}
    /\ probe.result = <<"A","K","I","A","*","*","*","T","E","S","T">>

(***************************************************************************)
(* C27: on every exit path of a run, validation failure and missing        *)
(* configuration included, a line stating SUCCESS or FAILED is logged      *)
(* before the process exits: SUCCESS exactly when the exit status is 0 and *)
(* FAILED exactly when it is 1.                                            *)
(* A run whose environment is rejected refutes it: validate_environment    *)
(* logs the error and calls sys.exit(1), and no except clause of main      *)
(* catches the SystemExit, so no FAILED line is logged.                    *)
(***************************************************************************)
C27_BannerMatchesExitStatus ==
    \A r \in Runs :
        Exited(r) =>
            /\ log[r] \in {"SUCCESS", "FAILED"}
            /\ log[r] = "SUCCESS" <=> exit_status[r] = 0
            /\ log[r] = "FAILED" <=> exit_status[r] = 1

\* The step is run r's call of tempfile.mkdtemp that returns.
MkdtempStep(r) == pc[r] = "mkdtemp" /\ pc'[r] = "download_model_from_hf"

\* The step is run r's finally clause.
FinallyStep(r) == pc[r] = "finally" /\ pc'[r] = "exit"

(***************************************************************************)
(* C28: the local directory is owned by the run that created it.  The      *)
(* directory mkdtemp gives a run is one that did not exist; every step     *)
(* that removes a directory is the finally clause of a run, and what it    *)
(* removes is the one directory that run created and nothing else: not the *)
(* configured download directory, and no directory another run left, whose *)
(* files it leaves as they are also when its own removal fails halfway.    *)
(***************************************************************************)
C28_OnlyOwnDirectoryRemoved ==
    [][/\ \A r \in Runs :
            MkdtempStep(r) =>
                /\ download_dir'[r] \notin DOMAIN fs
                /\ DOMAIN fs' = DOMAIN fs \cup {download_dir'[r]}
       /\ DOMAIN fs' # DOMAIN fs =>
            \E r \in Runs :
                \/ MkdtempStep(r)
                \/ /\ FinallyStep(r)
                   /\ download_dir[r] \in hist[r].dirs_created
                   /\ download_dir[r] # WorkDir
                   /\ DOMAIN fs' = DOMAIN fs \ {download_dir[r]}
       /\ \A r \in Runs :
            FinallyStep(r) =>
                \A d \in DOMAIN fs \ {download_dir[r]} :
                    d \in DOMAIN fs' /\ fs'[d] = fs[d]
       /\ \A r \in Runs :
            /\ hist'[r].cleanup_args \subseteq {download_dir'[r]}
            /\ WorkDir \notin hist'[r].cleanup_args]_vars

\* The second run has removed its own directory while the directory the
\* first run could not remove is still there.
C28_Witness ==
    /\ Exited(2) /\ hist[2].cleanup_calls = 1 /\ ~hist[2].rmtree_failed
    /\ hist[2].cleanup_args = {download_dir[2]}
    /\ download_dir[2] \notin DOMAIN fs
    /\ DOMAIN fs # {}

(***************************************************************************)
(* C29: cleanup of the local directory never begins while an upload task   *)
(* of the same run is in flight: in every interleaving, the one where an   *)
(* early task fails while others are running included, every task has      *)
(* finished when main's except and finally clauses run and the directory   *)
(* is removed, and every file was still there for the task that read it.   *)
(***************************************************************************)
C29_NoCleanupWhileUploading ==
    \A r \in Runs :
        /\ (pc[r] \in {"except", "finally", "exit", "exited"} \/ hist[r].cleanup_calls > 0) =>
               Running(r) = {} /\ Pending(r) = {}
        /\ Running(r) # {} =>
               \A rel \in Running(r) :
                   futures[r][rel].local_file_path \in LocalFiles(r)

\* The loop left with the failure of one task before it was handed the
\* result of another; that one stored its object, the run went on to exit
\* with status 1, and the directory was removed.
C29_Witness ==
    \E r \in Runs :
        /\ hist[r].cleanup_calls = 1 /\ ~RunDirExists(r)
        /\ exc[r] = "SystemExit" /\ exit_arg[r] = 1
        /\ \E rel \in DOMAIN futures[r] \ yielded[r] :
               futures[r][rel].state = "FINISHED"

(***************************************************************************)
(* C30: across any sequence of runs with the same configuration against    *)
(* the same store and an unchanged repository, a run that follows a run    *)
(* whose upload failed part-way included, whenever a run exits with status *)
(* 0 every file of the repository is stored under the key prefix.          *)
(* A run after a partly failed upload refutes it: the object the failed    *)
(* run left makes the existence check positive, and the run exits 0        *)
(* without the other files.                                                *)
(***************************************************************************)
C30_ExitZeroMeansWholeSnapshotStored ==
    \A r \in Runs :
        (Exited(r) /\ exit_status[r] = 0) =>
            \A f \in hub : Stored(r, full_s3_prefix[r] \o JoinPath(f))

\* The run's environment passes validate_environment.
EnvAccepted(r) == ~validate_environment(env[r]).exits

\* The prefix main derives for the run from its environment.
PrefixOf(r) == FullS3Prefix(ConfigOf(env[r]))

(***************************************************************************)
(* C31: for two different model names that both pass validation, with the  *)
(* same S3_PREFIX, the prefix of the one is not the beginning of any key    *)
(* written for the other, and so the existence check of a run for the one  *)
(* is never positive because of objects only a run for the other stored.   *)
(* The names "a" and "a/b" refute it: both pass validate_inputs, and the    *)
(* prefix "models/a/" of the first begins every key "models/a/b/..." of    *)
(* the second, so the first run finds the second's objects and exits 0.    *)
(***************************************************************************)
C31_OtherModelsObjectsNotSeen ==
    \A a, b \in Runs :
        (/\ a # b
         /\ EnvAccepted(a) /\ EnvAccepted(b)
         /\ env[a]["MODEL_NAME"] # env[b]["MODEL_NAME"]
         /\ EnvPrefix(a) = EnvPrefix(b))
        => /\ \A k \in SubmittedKeys(b) : ~StartsWith(k, PrefixOf(a))
           /\ hist[a].exists = "true" =>
                  \E k \in KeysUnderPrefix(a) : k \notin SubmittedKeys(b)

\* The upload has raised because a task failed.
UploadRaisedTaskFailure(r) == pc[r] = "raised" /\ exc[r] \in UploadFaults

(***************************************************************************)
(* C32: when an upload task fails, upload_directory_to_s3 cancels none of  *)
(* the others: by the time it raises, upload_file has been called exactly  *)
(* once for every file it collected, also for the files whose task had not *)
(* started when the loop saw the failure, and no future was cancelled.     *)
(***************************************************************************)
C32_FailureCancelsNoTask ==
    \A r \in Runs :
        UploadRaisedTaskFailure(r) =>
            \A f \in LocalFiles(r) :
                \E rel \in DOMAIN futures[r] :
                    /\ futures[r][rel].local_file_path = f
                    /\ hist[r].put_calls[rel] = 1
                    /\ futures[r][rel].state \in {"FINISHED"} \cup UploadFaults

\* A pool of one worker and three files: the first task failed, the loop saw
\* it, and the two tasks that had not started then have run since and stored
\* their objects before the upload raised.
C32_Witness ==
    /\ UploadRaisedTaskFailure(1)
    /\ max_workers[1] = 1
    /\ Cardinality(LocalFiles(1)) = 3
    /\ Cardinality(yielded[1]) = 1
    /\ hist[1].started_after_raise
    /\ \A rel \in DOMAIN futures[1] \ yielded[1] :
           /\ futures[1][rel].state = "FINISHED"
           /\ futures[1][rel].s3_key \in DOMAIN store[config[1].s3_bucket]

\* The ways the output is a beginning of the value, "***", and an end of the
\* value: the numbers of characters of the beginning and of the end.
Shown(v, out) ==
    {ht \in (0..Len(v)) \X (0..Len(v)) :
        /\ ht[1] + ht[2] <= Len(v)
        /\ out = SubSeq(v, 1, ht[1]) \o Stars
                     \o SubSeq(v, Len(v) - ht[2] + 1, Len(v))}

(***************************************************************************)
(* C33: masking never discloses a credential in full: for every value, of  *)
(* any length, the output of mask_credential shows at most 8 characters of *)
(* it and, when the value has a character, hides at least one.             *)
(* A value of exactly 8 characters refutes it: "AKIATEST" gives            *)
(* "AKIA***TEST", which shows all 8.                                       *)
(***************************************************************************)
C33_MaskHidesSomething ==
    Masked =>
        \A v \in probe.value :
            \E ht \in Shown(v, probe.result) :
                /\ ht[1] + ht[2] <= 8
                /\ v # <<>> => ht[1] + ht[2] < Len(v)

(***************************************************************************)
(* C34: when two runs with the same configuration execute side by side     *)
(* against the same prefix, under which the bucket holds nothing at the    *)
(* start, at most one of them calls snapshot_download.                     *)
(* Nothing in main keeps the second run from its existence check while     *)
(* the first has not uploaded yet: both checks are negative and both runs  *)
(* download.                                                               *)
(***************************************************************************)
C34_AtMostOneRunFetches ==
    \A a, b \in Runs :
        (/\ a # b
         /\ env[a] = env[b]
         /\ KeysBefore(a) = {} /\ KeysBefore(b) = {})
        => ~(hist[a].fetch_calls >= 1 /\ hist[b].fetch_calls >= 1)

====
